---- MODULE Spec2Model ----
(***************************************************************************)
(* A model of home2school.py: Location (a named 2D point with an ordered   *)
(* list of connected locations), Path (a validated sequence of locations   *)
(* with a derived distance) and Walker (the recursive fan-out that lists   *)
(* the paths from a start to an end location).                             *)
(*                                                                         *)
(* Location objects are identified by their name.  A Walker exists only    *)
(* while its _fanout call is running, so the Walker objects of a traversal *)
(* are the frames of the call stack: frame k holds the Walker's            *)
(* startLocation, its previousWalker (the index of the frame that created  *)
(* it, 0 for None) and the position of the frame's for loop.  The lists    *)
(* that walk() allocates and returns live in a heap (lists) and are        *)
(* referred to by index, so that aliasing between results is visible.      *)
(***************************************************************************)
EXTENDS Integers, Sequences, FiniteSets, TLC

VARIABLES
    locs,                \* the Location objects that were constructed
    connectedLocations,  \* Location.connectedLocations, per location
    phase,               \* "build", "walking", "done", "sorted", "path", "error"
    error,               \* the exception that ended a walk, or "None"
    endLocation,         \* the endLocation argument of the running walk
    stack,               \* the _fanout frames (one Walker each), root first
    lists,               \* heap of the result lists allocated by walk()
    paths,               \* walk()'s local variable paths: an index into lists
    walkArgs,            \* the <<start, end>> of every walk() call so far
    returned,            \* the list (index into lists) each walk() returned
    path,                \* Path.locations of the caller's own Path object
    lastCall,            \* the last addLocation call on path and its outcome
    mainPc,              \* main(): how many connectTo calls have been made
    sortedPaths          \* main(): the sorted list of paths

vars == << locs, connectedLocations, phase, error, endLocation, stack, lists,
           paths, walkArgs, returned, path, lastCall, mainPc, sortedPaths >>

---------------------------------------------------------------------------
(* Bounds *)

\* connectTo calls made while building a graph
MaxEdges == 3

\* walk() calls made on one graph
MaxWalks == 2

\* addLocation calls that succeed on the caller's own Path
MaxPathLen == 3

\* the interpreter's limit on the depth of the _fanout recursion
RecursionLimit == 6

\* distances are kept as integers, in units of 1/Scale (floats in the program)
Scale == 100

---------------------------------------------------------------------------
(* Location *)

\* main(): the five locations and their coordinates
MainLocations == {"Home", "Shop", "Park", "Library", "School"}

x == ("Home" :> 10) @@ ("Shop" :> 10) @@ ("Park" :> 20)
        @@ ("Library" :> 25) @@ ("School" :> 30)

y == ("Home" :> 10) @@ ("Shop" :> 20) @@ ("Park" :> 20)
        @@ ("Library" :> 10) @@ ("School" :> 20)

\* the locations of the graphs built by arbitrary connectTo calls
GraphLocations == {"Home", "Shop", "Park"}

\* main(): the connectTo calls, in order
MainConnections ==
    << <<"Home", "Shop">>, <<"Home", "Park">>, <<"Home", "Library">>,
       <<"Shop", "Park">>, <<"Park", "School">>, <<"Park", "Home">>,
       <<"Park", "Library">>, <<"Library", "Park">>, <<"Library", "School">> >>

Range(s) == { s[k] : k \in DOMAIN s }

\* the locations taken in the order they were collected
NotReversed(s) == s

\* reversed(locations)
Reverse(s) == [ k \in 1..Len(s) |-> s[Len(s) + 1 - k] ]

\* connectTo that also records the connection at the other end
ConnectToSymmetric(conn, a, b) ==
    [ l \in DOMAIN conn |->
        IF l = a THEN Append(conn[l], b)
        ELSE IF l = b THEN Append(conn[l], a)
        ELSE conn[l] ]

\* Location.connectTo: append to the connection list, no checks
ConnectToResult(conn, a, b) == [ conn EXCEPT ![a] = Append(@, b) ]

\* math.sqrt on a scaled integer: the largest r with r * r <= n
RECURSIVE SqrtSearch(_, _, _)
SqrtSearch(n, lo, hi) ==
    IF lo = hi THEN lo
    ELSE LET mid == (lo + hi + 1) \div 2
         IN  IF mid * mid <= n THEN SqrtSearch(n, mid, hi)
                               ELSE SqrtSearch(n, lo, mid - 1)

Sqrt(n) == SqrtSearch(n, 0, IF n < 46340 THEN n ELSE 46340)

\* Location.distanceTo, in units of 1/Scale, rounded down
distanceTo(a, b) ==
    Sqrt(((x[a] - x[b]) * (x[a] - x[b]) + (y[a] - y[b]) * (y[a] - y[b]))
            * Scale * Scale)

---------------------------------------------------------------------------
(* Path *)

\* addLocation that looks for the last location among the new one's connections
addLocationBackwards(conn, locations, location) ==
    IF Len(locations) > 0 /\ locations[Len(locations)] \notin Range(conn[location])
    THEN [ ok |-> FALSE, locations |-> locations ]
    ELSE [ ok |-> TRUE, locations |-> Append(locations, location) ]

\* Path.addLocation on a Path whose sequence is locations: the assertion
\* holds or not (ok), and the sequence afterwards
addLocation(conn, locations, location) ==
    IF Len(locations) > 0 /\ location \notin Range(conn[locations[Len(locations)]])
    THEN [ ok |-> FALSE, locations |-> locations ]
    ELSE [ ok |-> TRUE, locations |-> Append(locations, location) ]

\* Path.getDistance: the sum over the consecutive pairs
RECURSIVE SumSegments(_, _)
SumSegments(locations, k) ==
    IF k >= Len(locations) THEN 0
    ELSE distanceTo(locations[k], locations[k + 1]) + SumSegments(locations, k + 1)

getDistance(locations) == SumSegments(locations, 1)

\* sorted(paths, key=getDistance): a stable sort, smallest key first
InsertByDistance(p, s) ==
    LET n == Cardinality({ j \in 1..Len(s) : getDistance(s[j]) <= getDistance(p) })
    IN  SubSeq(s, 1, n) \o << p >> \o SubSeq(s, n + 1, Len(s))

RECURSIVE SortPrefix(_, _)
SortPrefix(seq, k) ==
    IF k = 0 THEN << >> ELSE InsertByDistance(seq[k], SortPrefix(seq, k - 1))

\* the same sort, largest key first
sortedDescending(seq) == Reverse(SortPrefix(seq, Len(seq)))

sorted(seq) == SortPrefix(seq, Len(seq))

---------------------------------------------------------------------------
(* Walker *)

\* Walker.__init__ without the previousWalker argument (it defaults to None)
NewWalkerUnlinked(startLocation, previousWalker) ==
    [ startLocation |-> startLocation, previousWalker |-> 0, next |-> 1 ]

\* Walker.__init__, with the position of the frame's for loop
NewWalker(startLocation, previousWalker) ==
    [ startLocation |-> startLocation, previousWalker |-> previousWalker, next |-> 1 ]

\* isVisited that looks at the current Walker only
isVisitedSelfOnly(stk, w, location) == stk[w].startLocation = location

\* Walker.isVisited of the Walker in frame w
RECURSIVE isVisited(_, _, _)
isVisited(stk, w, location) ==
    IF stk[w].startLocation = location THEN TRUE
    ELSE IF stk[w].previousWalker = 0 THEN FALSE
    ELSE isVisited(stk, stk[w].previousWalker, location)

\* _fanout, the branch that reached the end: the locations from the Walker
\* in frame w back to the root, following previousWalker
RECURSIVE ChainLocations(_, _)
ChainLocations(stk, w) ==
    IF stk[w].previousWalker = 0 THEN << stk[w].startLocation >>
    ELSE << stk[w].startLocation >> \o ChainLocations(stk, stk[w].previousWalker)

\* _fanout: path = Path(), then addLocation for each location in order;
\* ok is FALSE when one of the assertions failed
RECURSIVE BuildPath(_, _, _, _)
BuildPath(conn, locations, todo, k) ==
    IF k > Len(todo) THEN [ ok |-> TRUE, locations |-> locations ]
    ELSE LET r == addLocation(conn, locations, todo[k])
         IN  IF r.ok THEN BuildPath(conn, r.locations, todo, k + 1)
                     ELSE r

Top == stack[Len(stack)]

\* the end test that skips the root Walker
AtEndNotRoot == Top.startLocation = endLocation /\ Top.previousWalker # 0

\* _fanout: self.startLocation == endLocation
AtEnd == Top.startLocation = endLocation

Pop == SubSeq(stack, 1, Len(stack) - 1)

\* a _fanout call returns: to the calling frame, or from walk() to its caller
Return ==
    /\ stack' = Pop
    /\ IF Len(stack) = 1
       THEN /\ phase' = "done"
            /\ returned' = Append(returned, paths)
       ELSE UNCHANGED << phase, returned >>

\* walk() that keeps one list for all its calls
WalkCallSharedList(s, e) ==
    /\ lists' = IF lists = << >> THEN << << >> >> ELSE lists
    /\ paths' = 1
    /\ endLocation' = e
    /\ stack' = << NewWalker(s, 0) >>
    /\ walkArgs' = Append(walkArgs, << s, e >>)
    /\ phase' = "walking"
    /\ UNCHANGED << locs, connectedLocations, error, returned, path, lastCall,
                    mainPc, sortedPaths >>

\* Walker(s).walk(e): a fresh list, then _fanout on the root Walker
WalkCall(s, e) ==
    /\ lists' = Append(lists, << >>)
    /\ paths' = Len(lists) + 1
    /\ endLocation' = e
    /\ stack' = << NewWalker(s, 0) >>
    /\ walkArgs' = Append(walkArgs, << s, e >>)
    /\ phase' = "walking"
    /\ UNCHANGED << locs, connectedLocations, error, returned, path, lastCall,
                    mainPc, sortedPaths >>

\* _fanout at the end location: rebuild the path and append it to paths
FanoutEnd ==
    /\ phase = "walking"
    /\ AtEnd
    /\ LET built == BuildPath(connectedLocations, << >>,
                              Reverse(ChainLocations(stack, Len(stack))), 1)
       IN  IF built.ok
           THEN /\ lists' = [ lists EXCEPT ![paths] = Append(@, built.locations) ]
                /\ Return
                /\ UNCHANGED error
           ELSE /\ phase' = "error"
                /\ error' = "AssertionError"
                /\ UNCHANGED << lists, stack, returned >>
    /\ UNCHANGED << locs, connectedLocations, endLocation, paths, walkArgs,
                    path, lastCall, mainPc, sortedPaths >>

\* the for loop that returns after its first recursive call
FanoutLoopFirstOnly ==
    /\ phase = "walking"
    /\ ~AtEnd
    /\ Top.next <= Len(connectedLocations[Top.startLocation])
    /\ LET connectedLocation == connectedLocations[Top.startLocation][Top.next]
           advanced == [ stack EXCEPT ![Len(stack)].next = @ + 1 ]
           finished == [ stack EXCEPT ![Len(stack)].next =
                             Len(connectedLocations[Top.startLocation]) + 1 ]
       IN  IF isVisited(stack, Len(stack), connectedLocation)
           THEN /\ stack' = advanced
                /\ UNCHANGED << phase, error >>
           ELSE IF Len(stack) >= RecursionLimit
           THEN /\ phase' = "error"
                /\ error' = "RecursionError"
                /\ UNCHANGED stack
           ELSE /\ stack' = Append(finished, NewWalker(connectedLocation, Len(stack)))
                /\ UNCHANGED << phase, error >>
    /\ UNCHANGED << locs, connectedLocations, endLocation, lists, paths,
                    walkArgs, returned, path, lastCall, mainPc, sortedPaths >>

\* _fanout elsewhere, one iteration of the for loop
FanoutLoop ==
    /\ phase = "walking"
    /\ ~AtEnd
    /\ Top.next <= Len(connectedLocations[Top.startLocation])
    /\ LET connectedLocation == connectedLocations[Top.startLocation][Top.next]
           advanced == [ stack EXCEPT ![Len(stack)].next = @ + 1 ]
       IN  IF isVisited(stack, Len(stack), connectedLocation)
           THEN /\ stack' = advanced
                /\ UNCHANGED << phase, error >>
           ELSE IF Len(stack) >= RecursionLimit
           THEN /\ phase' = "error"
                /\ error' = "RecursionError"
                /\ UNCHANGED stack
           ELSE /\ stack' = Append(advanced, NewWalker(connectedLocation, Len(stack)))
                /\ UNCHANGED << phase, error >>
    /\ UNCHANGED << locs, connectedLocations, endLocation, lists, paths,
                    walkArgs, returned, path, lastCall, mainPc, sortedPaths >>

\* _fanout elsewhere, the for loop is exhausted
FanoutReturn ==
    /\ phase = "walking"
    /\ ~AtEnd
    /\ Top.next > Len(connectedLocations[Top.startLocation])
    /\ Return
    /\ UNCHANGED << locs, connectedLocations, error, endLocation, lists, paths,
                    walkArgs, path, lastCall, mainPc, sortedPaths >>

---------------------------------------------------------------------------
(* The callers: a graph built by any connectTo calls *)

Init ==
    /\ locs = GraphLocations
    /\ connectedLocations = [ l \in GraphLocations |-> << >> ]
    /\ phase = "build"
    /\ error = "None"
    /\ endLocation = "Home"
    /\ stack = << >>
    /\ lists = << >>
    /\ paths = 0
    /\ walkArgs = << >>
    /\ returned = << >>
    /\ path = << >>
    /\ lastCall = [ location |-> "Home", raised |-> FALSE ]
    /\ mainPc = 0
    /\ sortedPaths = << >>

EdgeCount(conn) ==
    LET RECURSIVE Sum(_)
        Sum(S) == IF S = {} THEN 0
                  ELSE LET l == CHOOSE l \in S : TRUE
                       IN  Len(conn[l]) + Sum(S \ {l})
    IN  Sum(DOMAIN conn)

ConnectTo ==
    \E a \in locs, b \in locs :
        /\ phase = "build"
        /\ EdgeCount(connectedLocations) < MaxEdges
        /\ connectedLocations' = ConnectToResult(connectedLocations, a, b)
        /\ UNCHANGED << locs, phase, error, endLocation, stack, lists, paths,
                        walkArgs, returned, path, lastCall, mainPc, sortedPaths >>

\* the first walk on the graph, and the same call again
Walk ==
    \E s \in locs, e \in locs :
        /\ \/ phase = "build"
           \/ /\ phase = "done"
              /\ Len(walkArgs) < MaxWalks
              /\ walkArgs[Len(walkArgs)] = << s, e >>
        /\ WalkCall(s, e)

\* the caller's own Path object
NewPath ==
    /\ phase = "build"
    /\ phase' = "path"
    /\ path' = << >>
    /\ UNCHANGED << locs, connectedLocations, error, endLocation, stack, lists,
                    paths, walkArgs, returned, lastCall, mainPc, sortedPaths >>

AddLocation ==
    \E location \in locs :
        /\ phase = "path"
        /\ Len(path) < MaxPathLen
        /\ LET r == addLocation(connectedLocations, path, location)
           IN  /\ path' = r.locations
               /\ lastCall' = [ location |-> location, raised |-> ~r.ok ]
        /\ UNCHANGED << locs, connectedLocations, phase, error, endLocation,
                        stack, lists, paths, walkArgs, returned, mainPc,
                        sortedPaths >>

Next ==
    \/ ConnectTo
    \/ Walk
    \/ FanoutEnd
    \/ FanoutLoop
    \/ FanoutReturn
    \/ NewPath
    \/ AddLocation

Spec == Init /\ [][Next]_vars

\* a walk that was started runs on: the program is sequential
FairSpec == Spec /\ WF_vars(FanoutEnd) /\ WF_vars(FanoutLoop) /\ WF_vars(FanoutReturn)

---------------------------------------------------------------------------
(* The callers: main() *)

InitMain ==
    /\ locs = MainLocations
    /\ connectedLocations = [ l \in MainLocations |-> << >> ]
    /\ phase = "build"
    /\ error = "None"
    /\ endLocation = "Home"
    /\ stack = << >>
    /\ lists = << >>
    /\ paths = 0
    /\ walkArgs = << >>
    /\ returned = << >>
    /\ path = << >>
    /\ lastCall = [ location |-> "Home", raised |-> FALSE ]
    /\ mainPc = 0
    /\ sortedPaths = << >>

\* main(): the next connectTo call
MainConnect ==
    /\ phase = "build"
    /\ mainPc < Len(MainConnections)
    /\ mainPc' = mainPc + 1
    /\ connectedLocations' = ConnectToResult(connectedLocations,
                                             MainConnections[mainPc + 1][1],
                                             MainConnections[mainPc + 1][2])
    /\ UNCHANGED << locs, phase, error, endLocation, stack, lists, paths,
                    walkArgs, returned, path, lastCall, sortedPaths >>

\* main() calls Walker(home).walk(school); the other pairs are the walks
\* the same graph admits
MainWalk ==
    \E s \in locs, e \in locs :
        /\ phase = "build"
        /\ mainPc = Len(MainConnections)
        /\ WalkCall(s, e)

\* main(): sortedPaths = sorted(paths, key=lambda p: p.getDistance())
MainSort ==
    /\ phase = "done"
    /\ phase' = "sorted"
    /\ sortedPaths' = sorted(lists[returned[1]])
    /\ UNCHANGED << locs, connectedLocations, error, endLocation, stack, lists,
                    paths, walkArgs, returned, path, lastCall, mainPc >>

NextMain ==
    \/ MainConnect
    \/ MainWalk
    \/ FanoutEnd
    \/ FanoutLoop
    \/ FanoutReturn
    \/ MainSort

SpecMain == InitMain /\ [][NextMain]_vars

---------------------------------------------------------------------------
(* Properties *)

Injective(s) == \A j, k \in DOMAIN s : s[j] = s[k] => j = k

Count(p, seq) == Cardinality({ k \in DOMAIN seq : seq[k] = p })

SameBag(s1, s2) == \A p \in Range(s1) \cup Range(s2) : Count(p, s1) = Count(p, s2)

\* the result of the k-th walk() call that returned
Result(k) == lists[returned[k]]

\* the sequences of at most n locations
SeqsUpTo(S, n) == UNION { [ 1..m -> S ] : m \in 1..n }

\* the reference: every simple path from s to e along the connections
SimplePaths(conn, s, e) ==
    { p \in SeqsUpTo(DOMAIN conn, Cardinality(DOMAIN conn)) :
        /\ p[1] = s
        /\ p[Len(p)] = e
        /\ Injective(p)
        /\ \A k \in 1..(Len(p) - 1) : p[k + 1] \in Range(conn[p[k]]) }

HomeToSchool == walkArgs = << << "Home", "School" >> >>

FivePaths ==
    { << "Home", "Park", "School" >>,
      << "Home", "Library", "School" >>,
      << "Home", "Park", "Library", "School" >>,
      << "Home", "Shop", "Park", "School" >>,
      << "Home", "Shop", "Park", "Library", "School" >> }

\* C1 as stated: on the graph of main(), the walk from Home to School raises
\* no error and returns exactly the five listed location sequences.
C1_FivePaths ==
    HomeToSchool =>
        /\ phase # "error"
        /\ phase \in {"done", "sorted"} =>
              Range(Result(1)) = FivePaths /\ Len(Result(1)) = 5

\* C1 amended: on the graph of main(), the walk from Home to School raises no
\* error and returns exactly six location sequences, the five listed and
\* [Home, Library, Park, School].
C1_SixPaths ==
    HomeToSchool =>
        /\ phase # "error"
        /\ phase \in {"done", "sorted"} =>
              /\ Range(Result(1))
                     = FivePaths \cup { << "Home", "Library", "Park", "School" >> }
              /\ Len(Result(1)) = 6

C1_Witness == HomeToSchool /\ phase = "done" /\ Len(Result(1)) = 6

\* C2: every Path in a list that walk(s, e) fills or has returned starts at
\* s, ends at e, holds no location twice, and each consecutive pair (a, b) of
\* it has b in a's connection list.
C2_PathsAreSimpleAndConnected ==
    \A k \in 1..Len(walkArgs) :
        k <= Len(lists) =>
            \A j \in 1..Len(lists[k]) :
                LET p == lists[k][j]
                IN  /\ p[1] = walkArgs[k][1]
                    /\ p[Len(p)] = walkArgs[k][2]
                    /\ Injective(p)
                    /\ \A m \in 1..(Len(p) - 1) :
                           p[m + 1] \in Range(connectedLocations[p[m]])

C2_Witness ==
    /\ phase = "done"
    /\ \E j \in 1..Len(Result(1)) : Len(Result(1)[j]) = 3
    /\ \E l \in locs \ { walkArgs[1][1] } :
           walkArgs[1][1] \in Range(connectedLocations[l])

\* C3: no walk raises an error, and the set of location sequences a walk
\* from s to e returns is the set of all simple paths from s to e along the
\* connections; it is empty when e cannot be reached from s.
C3_AllSimplePaths ==
    /\ phase # "error"
    /\ \A k \in 1..Len(returned) :
           Range(Result(k))
               = SimplePaths(connectedLocations, walkArgs[k][1], walkArgs[k][2])

C3_Witness ==
    /\ phase = "done"
    /\ Cardinality(Range(Result(1))) = 2
    /\ \E j \in 1..Len(Result(1)) : Len(Result(1)[j]) = 3

\* C4 as stated: no two Paths of a returned list have the same location
\* sequence.
C4_NoDuplicatePaths ==
    \A k \in 1..Len(returned) : Injective(Result(k))

\* C5: a walk from s to s creates no Walker besides the root and never
\* enters the root's for loop, and it returns exactly one Path, [s], whose
\* distance is 0.
C5_StartIsEnd ==
    (walkArgs # << >> /\ walkArgs[1][1] = walkArgs[1][2]) =>
        /\ phase # "error"
        /\ Len(stack) <= 1
        /\ \A w \in 1..Len(stack) : stack[w].next = 1
        /\ \A k \in 1..Len(returned) :
               /\ Result(k) = << << walkArgs[k][1] >> >>
               /\ getDistance(Result(k)[1]) = 0

C5_Witness ==
    /\ phase = "done"
    /\ walkArgs[1] = << "Home", "Home" >>
    /\ "Home" \in Range(connectedLocations["Home"])
    /\ "Home" \in Range(connectedLocations["Shop"])
    /\ "Shop" \in Range(connectedLocations["Home"])

\* C6: a walk that was started returns.
C6_WalkTerminates == (phase = "walking") ~> (phase = "done")

C6_Witness ==
    /\ phase = "done"
    /\ walkArgs[1] = << "Home", "Park" >>
    /\ "Home" \in Range(connectedLocations["Home"])
    /\ "Home" \in Range(connectedLocations["Shop"])
    /\ "Shop" \in Range(connectedLocations["Home"])
    /\ Result(1) = << >>

\* C7: an addLocation call on the caller's Path raises exactly when the Path
\* is not empty and the location is not in the connection list of its last
\* location; then the sequence is unchanged, otherwise the location is
\* appended to it.
C7_AddLocation ==
    [][ (phase = "path" /\ phase' = "path") =>
          LET raises == /\ Len(path) > 0
                        /\ lastCall'.location
                               \notin Range(connectedLocations[path[Len(path)]])
          IN  /\ lastCall'.raised <=> raises
              /\ raises => path' = path
              /\ ~raises => path' = Append(path, lastCall'.location) ]_vars

C7_Witness ==
    /\ phase = "path"
    /\ Len(path) = 2
    /\ lastCall.raised
    /\ path[2] \in Range(connectedLocations[lastCall.location])

\* C8 as stated: on the graph of main(), the first of the paths from Home to
\* School sorted by distance is Home -> Library -> School.
C8_FirstIsViaLibrary ==
    (HomeToSchool /\ phase = "sorted") =>
        sortedPaths[1] = << "Home", "Library", "School" >>

\* C8 amended: on the graph of main(), the paths from Home to School sorted
\* by distance are in ascending order of distance and the first of them is
\* Home -> Park -> School.
C8_FirstIsViaPark ==
    (HomeToSchool /\ phase = "sorted") =>
        /\ sortedPaths[1] = << "Home", "Park", "School" >>
        /\ \A k \in 1..(Len(sortedPaths) - 1) :
               getDistance(sortedPaths[k]) <= getDistance(sortedPaths[k + 1])

C8_Witness == HomeToSchool /\ phase = "sorted" /\ Len(sortedPaths) = 6

\* C9: a walk leaves every connection list as it was; a second walk with
\* the same arguments returns the same multiset of location sequences as
\* the first, and no step after the first walk returned changes the list
\* that it returned.
C9_WalkIsRepeatable ==
    /\ [](Len(returned) >= 2 => SameBag(Result(1), Result(2)))
    /\ [][ /\ (phase = "walking" \/ phase' = "walking")
                  => connectedLocations' = connectedLocations
           /\ Len(returned) >= 1
                  => lists'[returned[1]] = lists[returned[1]] ]_vars

C9_Witness ==
    /\ Len(returned) = 2
    /\ Len(Result(2)) = 2
    /\ returned[1] # returned[2]

\* C10: during a walk from s, the chain of previousWalker links from every
\* Walker leads to the root at s and holds no location twice, every Walker
\* but the root is at a location in the connection list of its
\* predecessor's location, and neither a chain nor the recursion is deeper
\* than the number of locations.
C10_ChainIsSimplePath ==
    phase = "walking" =>
        /\ Len(stack) <= Cardinality(locs)
        /\ \A w \in 1..Len(stack) :
               LET chain == ChainLocations(stack, w)
               IN  /\ Injective(chain)
                   /\ chain[Len(chain)] = walkArgs[Len(walkArgs)][1]
                   /\ Len(chain) <= Cardinality(locs)
                   /\ stack[w].previousWalker # 0 =>
                          stack[w].startLocation \in Range(
                              connectedLocations[
                                  stack[stack[w].previousWalker].startLocation])

C10_Witness ==
    /\ phase = "walking"
    /\ Len(stack) = 3
    /\ stack[1].startLocation \in Range(connectedLocations[stack[3].startLocation])

====
